---- MODULE Spec2Model ----
(***************************************************************************)
(* pymagicstrip: the MagicStripDevice session state machine                *)
(* (src/pymagicstrip/__init__.py).  Callers are asyncio tasks sharing one  *)
(* device instance; a step of the model is what a task does between two   *)
(* suspension points (an await that really suspends: a blocked lock, a     *)
(* transport call, a sleep).                                               *)
(***************************************************************************)
EXTENDS Integers, Sequences, FiniteSets, TLC

\* Number of concurrent callers (asyncio tasks) using the device instance.
NumCallers == 2

Callers == 1..NumCallers

\* ------------------------------------------------------------------ values
\* Python's None / a present value, as sequences of length 0 / 1.
None == <<>>
Some(x) == <<x>>

\* A byte as two hex digits: f"{i:02x}" (digits are numbers 0..15).
Hex2(i) == <<i \div 16, i % 16>>

\* bytearray.hex(data): the hex string of a byte sequence.
RECURSIVE BytesHex(_)
BytesHex(data) ==
    IF data = <<>> THEN <<>> ELSE Hex2(Head(data)) \o BytesHex(Tail(data))

\* bytes.fromhex(s): the bytes of a hex string of even length.
RECURSIVE FromHex(_)
FromHex(s) ==
    IF Len(s) < 2 THEN <<>>
    ELSE <<s[1] * 16 + s[2]>> \o FromHex(SubSeq(s, 3, Len(s)))

\* int(s, 16) of a two-digit group.
Int16(s) == s[1] * 16 + s[2]

\* ------------------------------------------------------- const.py (absent)
\* The effect table: name -> pre-encoded command "07xx".
EFFECTS == [n \in {"Fade", "Strobe"} |->
              IF n = "Fade" THEN <<0, 7, 0, 1>> ELSE <<0, 7, 0, 2>>]

\* The fixed toggle-power payload.
TOGGLE_POWER == <<0, 6>>

\* The acknowledgement constant "f00201".
CMD_ACK == <<15, 0, 0, 2, 0, 1>>

\* STATUS_REGEX applied to the hex string: a 5-byte frame 0f WW XX YY ZZ
\* with WW in {00, 01}.
StatusMatches(hex) ==
    /\ Len(hex) = 10
    /\ hex[1] = 0 /\ hex[2] = 15
    /\ hex[3] = 0 /\ hex[4] \in {0, 1}

\* group(1) and group(2) of the match.
StatusGroup1(hex) == SubSeq(hex, 3, 4)
StatusGroup2(hex) == SubSeq(hex, 5, 6)

\* ------------------------------------------------------------------- state
VARIABLES
    state,          \* self.state: the MagicStripState record
    lockOwner,      \* self.lock: the caller holding it, 0 when unlocked
    waiters,        \* self.lock: the callers queued on it, in FIFO order
    is_connected,   \* self._is_connected
    subscribed,     \* the transport has the notification handler registered
    wire,           \* the bytes the latest step wrote to the characteristic, if any
    pc,             \* each caller's suspension point
    op,             \* each caller's current operation and arguments
    result,         \* each caller's outcome, once its call has finished
    tries,          \* write-and-acknowledge exchanges begun by the current send
    fault           \* the transport fault the current call ran into, if any

vars == <<state, lockOwner, waiters, is_connected, subscribed, wire,
          pc, op, result, tries, fault>>

\* MagicStripState(): every field None.
InitialState ==
    [on |-> None, brightness |-> None, color |-> None, effect |-> None,
     effect_speed |-> None, rssi |-> None]

NoOp == [name |-> "none", a |-> <<>>, e |-> None]

Init ==
    /\ state = InitialState
    /\ lockOwner = 0
    /\ waiters = <<>>
    /\ is_connected = FALSE
    /\ subscribed = FALSE
    /\ wire = <<>>
    /\ pc = [c \in Callers |-> "idle"]
    /\ op = [c \in Callers |-> NoOp]
    /\ result = [c \in Callers |-> "none"]
    /\ tries = [c \in Callers |-> 0]
    /\ fault = [c \in Callers |-> "none"]

\* The band limit -55 tested with > in place of >=.
JudgeRssiStrict(rssi) ==
    IF rssi = None THEN None
    ELSE LET r == rssi[1] IN
         IF r >= 0 THEN Some("Unknown")
         ELSE IF r > -55 THEN Some("Excellent")
         ELSE IF r >= -75 THEN Some("Good")
         ELSE IF r >= -85 THEN Some("Bad")
         ELSE IF r < -85 THEN Some("Terrible")
         ELSE None

\* _judge_rssi(rssi): the tests in the order the code makes them.
JudgeRssi(rssi) ==
    IF rssi = None THEN None
    ELSE LET r == rssi[1] IN
         IF r >= 0 THEN Some("Unknown")
         ELSE IF r >= -55 THEN Some("Excellent")
         ELSE IF r >= -75 THEN Some("Good")
         ELSE IF r >= -85 THEN Some("Bad")
         ELSE IF r < -85 THEN Some("Terrible")
         ELSE None

\* MagicStripState.connection_quality.
ConnectionQuality(s) == JudgeRssi(s.rssi)

\* ------------------------------------------------------------- operations
\* The operations a caller may start, as [name, a: integer arguments,
\* e: the effect argument (None, or one name)].
OpColor(r, g, b) == [name |-> "set_color", a |-> <<r, g, b>>, e |-> None]
OpBrightness(b) == [name |-> "set_brightness", a |-> <<b>>, e |-> None]
OpSpeed(s) == [name |-> "set_effect_speed", a |-> <<s>>, e |-> None]
OpEffect(e) == [name |-> "set_effect_name", a |-> <<>>, e |-> e]
OpToggle == [name |-> "toggle_power", a |-> <<>>, e |-> None]
OpUpdate == [name |-> "update", a |-> <<>>, e |-> None]
OpDetection(rssi) == [name |-> "detection_callback", a |-> <<rssi>>, e |-> None]
OpDisconnect == [name |-> "disconnect", a |-> <<>>, e |-> None]

\* The range check applied to red alone.
ColorInRangeRedOnly(r, g, b) == 0 <= r /\ r <= 255

\* set_color: for color in (red, green, blue): if not 0 <= color <= 255.
ColorInRange(r, g, b) == \A x \in {r, g, b} : 0 <= x /\ x <= 255

\* set_brightness / set_effect_speed: if not 0 <= value <= 255.
ByteInRange(x) == 0 <= x /\ x <= 255

\* set_effect_name: effect in list(EFFECTS) or effect is None.
EffectKnown(e) == IF e = None THEN TRUE ELSE e[1] \in DOMAIN EFFECTS

\* The argument check each mutator makes before anything else.
Valid(o) ==
    CASE o.name = "set_color" -> ColorInRange(o.a[1], o.a[2], o.a[3])
      [] o.name = "set_brightness" -> ByteInRange(o.a[1])
      [] o.name = "set_effect_speed" -> ByteInRange(o.a[1])
      [] o.name = "set_effect_name" -> EffectKnown(o.e)
      [] OTHER -> TRUE

\* The components formatted in the order blue, green, red.
ColorCmdReversed(r, g, b) == <<0, 3>> \o Hex2(b) \o Hex2(g) \o Hex2(r)

\* set_color: f"03{''.join(f'{i:02x}' for i in (red, green, blue))}".
ColorCmd(r, g, b) == <<0, 3>> \o Hex2(r) \o Hex2(g) \o Hex2(b)

\* set_brightness: f"08{''.join(f'{brightness:02x}')}".
BrightnessCmd(b) == <<0, 8>> \o Hex2(b)

\* The speed sent as given, without the inversion.
SpeedCmdPlain(s) == <<0, 9>> \o Hex2(s)

\* set_effect_speed: inv_speed = 255 - speed; f"09{inv_speed:02x}".
SpeedCmd(s) == <<0, 9>> \o Hex2(255 - s)

\* The command string a mutator hands to _send_command.
Cmd(o) ==
    CASE o.name = "set_color" -> ColorCmd(o.a[1], o.a[2], o.a[3])
      [] o.name = "set_brightness" -> BrightnessCmd(o.a[1])
      [] o.name = "set_effect_speed" -> SpeedCmd(o.a[1])
      [] o.name = "set_effect_name" -> EFFECTS[o.e[1]]
      [] OTHER -> TOGGLE_POWER

\* toggle_power left without its update().
UpdatingOpsNoToggle == {"set_brightness", "detection_callback"}

\* The operations that go through _send_command / that end in update().
SendOps == {"set_color", "set_brightness", "set_effect_speed",
            "set_effect_name", "toggle_power"}
UpdatingOps == {"set_brightness", "toggle_power", "detection_callback"}

\* ------------------------------------------------------------ state model
\* The replace of set_color without effect=None.
SetColorStateKeepEffect(s, r, g, b) ==
    [s EXCEPT !.color = Some(<<r, g, b>>), !.effect_speed = None]

\* set_color: replace(state, color=(r, g, b), effect_speed=None, effect=None).
SetColorState(s, r, g, b) ==
    [s EXCEPT !.color = Some(<<r, g, b>>), !.effect_speed = None, !.effect = None]

\* set_brightness: replace(state, brightness=brightness).
SetBrightnessState(s, b) == [s EXCEPT !.brightness = Some(b)]

\* set_effect_name: replace(state, effect=effect, color=None).
SetEffectState(s, e) == [s EXCEPT !.effect = e, !.color = None]

\* set_effect_speed: replace(state, effect_speed=speed).
SetSpeedState(s, speed) == [s EXCEPT !.effect_speed = Some(speed)]

\* toggle_power: replace(state, on=not state.on); not None is True.
TogglePowerState(s) ==
    [s EXCEPT !.on = Some(IF s.on = None THEN TRUE ELSE ~s.on[1])]

\* detection_callback: replace(state, rssi=device.rssi).
DetectionState(s, rssi) == [s EXCEPT !.rssi = Some(rssi)]

\* The replace of a notification with brightness alone.
ReplaceBrightnessOnly(s, on, brightness) ==
    [s EXCEPT !.brightness = Some(brightness)]

\* MagicStripState.replace_from_notification(on, brightness).
ReplaceFromNotification(s, on, brightness) ==
    [s EXCEPT !.on = Some(on), !.brightness = Some(brightness)]

\* The handler with the power test reversed (on when WW is "00").
NotificationStateInverted(s, data) ==
    LET hex == BytesHex(data) IN
    IF StatusMatches(hex)
    THEN ReplaceFromNotification(s, StatusGroup1(hex) = <<0, 0>>,
                                 Int16(StatusGroup2(hex)))
    ELSE s

\* _onoff_notification_handler: the state after the handler has run on data.
NotificationState(s, data) ==
    LET hex == BytesHex(data) IN
    IF StatusMatches(hex)
    THEN ReplaceFromNotification(s, StatusGroup1(hex) = <<0, 1>>,
                                 Int16(StatusGroup2(hex)))
    ELSE s

\* The state update a mutator makes once _send_command has returned.
StateAfterSend(s, o) ==
    CASE o.name = "set_color" -> SetColorState(s, o.a[1], o.a[2], o.a[3])
      [] o.name = "set_brightness" -> SetBrightnessState(s, o.a[1])
      [] o.name = "set_effect_name" -> SetEffectState(s, o.e)
      [] o.name = "toggle_power" -> TogglePowerState(s)
      [] OTHER -> s

\* ------------------------------------------------------------ transport
\* What a transport call can do: succeed, or fail with one of these.
ConnectOutcomes == {"ok", "Timeout", "Cancelled", "BleakError", "Unexpected"}
IoOutcomes == {"ok", "Timeout", "BleakError", "OSError"}

\* Every exception of the connect caught and retried.
RecoverableAnyException(outcome) == outcome # "ok"

\* A general transport error taken for unrecoverable.
RecoverableNoBleakError(outcome) == outcome \in {"Timeout", "Cancelled"}

\* __aenter__: the except clauses that sleep and retry.
Recoverable(outcome) == outcome \in {"Timeout", "Cancelled", "BleakError"}

\* The two except clauses with their exceptions exchanged.
RemapErrorSwapped(f) ==
    CASE f = "Timeout" -> "BleConnectionError"
      [] f = "BleakError" -> "BleTimeoutError"
      [] OTHER -> f

\* _send_command / update: the exception a failed transport call ends in.
RemapError(f) ==
    CASE f = "Timeout" -> "BleTimeoutError"
      [] f = "BleakError" -> "BleConnectionError"
      [] OTHER -> f

\* _send_command: the attempts parameter of every awaited call (its default).
DefaultAttempts == 1

\* _send_command: the bound of "if attempts <= 2".
RetryLimit == 2

\* ------------------------------------------------------------------ lock
\* asyncio.Lock.acquire() returns at once when unlocked with nobody queued.
LockFree(owner, ws) == owner = 0 /\ ws = <<>>

PcLock(kind) == IF kind = "s" THEN "s_lock" ELSE "u_lock"
PcConnect(kind) == IF kind = "s" THEN "s_connect" ELSE "u_connect"
PcSleep(kind) == IF kind = "s" THEN "s_sleep" ELSE "u_sleep"
PcFirst(kind) == IF kind = "s" THEN "s_write1" ELSE "u_start"
KindOf(p) == IF p \in {"s_lock", "s_connect", "s_sleep"} THEN "s" ELSE "u"

\* "async with self" going to the first transport call without a connect.
AfterLockNoConnect(kind, conn) == PcFirst(kind)

\* "async with self": __aenter__ returns at once when the flag is set,
\* otherwise it awaits the transport's connect.
AfterLock(kind, conn) == IF conn THEN PcFirst(kind) ELSE PcConnect(kind)

\* The exchange entered without taking notice of the lock.
AcquireUnguarded(c, kind, owner, ws, conn) ==
    [owner |-> c, waiters |-> ws, pc |-> AfterLock(kind, conn)]

\* "async with self.lock: async with self:" entered by c while the lock is
\* (owner, ws): the lock and c's suspension point afterwards.
Acquire(c, kind, owner, ws, conn) ==
    IF LockFree(owner, ws)
    THEN [owner |-> c, waiters |-> ws, pc |-> AfterLock(kind, conn)]
    ELSE [owner |-> owner, waiters |-> Append(ws, c), pc |-> PcLock(kind)]

\* --------------------------------------------------------------- actions
\* The step writes nothing to the characteristic.
NoWrite == wire' = <<>>

\* c's call ends: it returns ("ok") or raises the exception named r.
Finish(c, r) ==
    /\ pc' = [pc EXCEPT ![c] = "done"]
    /\ result' = [result EXCEPT ![c] = r]

\* c starts operation o: the bookkeeping of a fresh call.
Begin(c, o) ==
    /\ pc[c] = "idle"
    /\ op' = [op EXCEPT ![c] = o]
    /\ tries' = [tries EXCEPT ![c] = 0]
    /\ fault' = [fault EXCEPT ![c] = "none"]

\* A mutator called with an argument it rejects: raise OutOfRange.
CallRejected(c, o) ==
    /\ Begin(c, o)
    /\ ~Valid(o)
    /\ Finish(c, "OutOfRange")
    /\ UNCHANGED <<state, lockOwner, waiters, is_connected, subscribed>>
    /\ NoWrite

\* set_effect_name(None): nothing is sent, the state is replaced.
CallNoEffect(c, o) ==
    /\ Begin(c, o)
    /\ o.name = "set_effect_name" /\ o.e = None
    /\ state' = SetEffectState(state, o.e)
    /\ Finish(c, "ok")
    /\ UNCHANGED <<lockOwner, waiters, is_connected, subscribed>>
    /\ NoWrite

\* A mutator called with valid arguments reaches _send_command and runs up
\* to its first suspension.  set_effect_speed replaces the state first.
CallSend(c, o) ==
    /\ Begin(c, o)
    /\ o.name \in SendOps /\ Valid(o)
    /\ ~(o.name = "set_effect_name" /\ o.e = None)
    /\ state' = IF o.name = "set_effect_speed"
                THEN SetSpeedState(state, o.a[1]) ELSE state
    /\ LET a == Acquire(c, "s", lockOwner, waiters, is_connected) IN
         /\ lockOwner' = a.owner
         /\ waiters' = a.waiters
         /\ pc' = [pc EXCEPT ![c] = a.pc]
    /\ UNCHANGED <<is_connected, subscribed, result>>
    /\ NoWrite

\* update(), or detection_callback (replace rssi, then update()).
CallUpdate(c, o) ==
    /\ Begin(c, o)
    /\ o.name \in {"update", "detection_callback"}
    /\ state' = IF o.name = "detection_callback"
                THEN DetectionState(state, o.a[1]) ELSE state
    /\ LET a == Acquire(c, "u", lockOwner, waiters, is_connected) IN
         /\ lockOwner' = a.owner
         /\ waiters' = a.waiters
         /\ pc' = [pc EXCEPT ![c] = a.pc]
    /\ UNCHANGED <<is_connected, subscribed, result>>
    /\ NoWrite

\* disconnect(): await self._client.disconnect(), nothing else.
CallDisconnect(c, o) ==
    /\ Begin(c, o)
    /\ o.name = "disconnect"
    /\ Finish(c, "ok")
    /\ UNCHANGED <<state, lockOwner, waiters, is_connected, subscribed>>
    /\ NoWrite

\* release() woke the first waiter: it takes the lock and enters "self".
WakeLock(c) ==
    /\ pc[c] \in {"s_lock", "u_lock"}
    /\ lockOwner = 0 /\ waiters # <<>> /\ Head(waiters) = c
    /\ lockOwner' = c
    /\ waiters' = Tail(waiters)
    /\ pc' = [pc EXCEPT ![c] = AfterLock(KindOf(pc[c]), is_connected)]
    /\ UNCHANGED <<state, is_connected, subscribed, op, result, tries, fault>>
    /\ NoWrite

\* __aenter__: await self._client.__aenter__() succeeded.
ConnectOk(c) ==
    /\ pc[c] \in {"s_connect", "u_connect"}
    /\ is_connected' = TRUE
    /\ pc' = [pc EXCEPT ![c] = PcFirst(KindOf(pc[c]))]
    /\ UNCHANGED <<state, lockOwner, waiters, subscribed, op, result, tries,
                   fault>>
    /\ NoWrite

\* __aenter__: the connect failed; a recoverable failure goes to the sleep,
\* any other exception leaves both "async with" blocks and the operation.
ConnectFails(c, outcome) ==
    /\ pc[c] \in {"s_connect", "u_connect"}
    /\ outcome # "ok"
    /\ IF Recoverable(outcome)
       THEN /\ pc' = [pc EXCEPT ![c] = PcSleep(KindOf(pc[c]))]
            /\ UNCHANGED <<lockOwner, result, fault>>
       ELSE /\ lockOwner' = 0
            /\ fault' = [fault EXCEPT ![c] = outcome]
            /\ Finish(c, outcome)
    /\ UNCHANGED <<state, waiters, is_connected, subscribed, op, tries>>
    /\ NoWrite

\* __aenter__: asyncio.sleep(self._retry_interval) is over; the while
\* condition is evaluated again.
RetrySleep(c) ==
    /\ pc[c] \in {"s_sleep", "u_sleep"}
    /\ pc' = [pc EXCEPT ![c] = AfterLock(KindOf(pc[c]), is_connected)]
    /\ UNCHANGED <<state, lockOwner, waiters, is_connected, subscribed, op,
                   result, tries, fault>>
    /\ NoWrite

\* _send_command has returned normally: the lock is released, the mutator
\* replaces the state and, for set_brightness and toggle_power, enters
\* update() without suspending in between.
SendReturns(c) ==
    /\ state' = StateAfterSend(state, op[c])
    /\ IF op[c].name \in UpdatingOps
       THEN LET a == Acquire(c, "u", 0, waiters, is_connected) IN
              /\ lockOwner' = a.owner
              /\ waiters' = a.waiters
              /\ pc' = [pc EXCEPT ![c] = a.pc]
              /\ UNCHANGED result
       ELSE /\ lockOwner' = 0
            /\ UNCHANGED waiters
            /\ Finish(c, "ok")

\* _send_command, "except OSError": with attempts <= 2 the retry coroutine
\* is created and never awaited, and the function falls through.
Swallowed(f, attempts) == f = "OSError" /\ attempts <= RetryLimit

\* A write of _send_command raised f.
SendFails(c, f) ==
    /\ fault' = [fault EXCEPT ![c] = f]
    /\ IF Swallowed(f, DefaultAttempts)
       THEN SendReturns(c)
       ELSE /\ lockOwner' = 0
            /\ Finish(c, RemapError(f))
            /\ UNCHANGED <<state, waiters>>

\* _send_command: write_gatt_char(CHARACTERISTIC_UUID, bytes.fromhex(cmd)).
SendWrite1(c, outcome) ==
    /\ pc[c] = "s_write1"
    /\ tries' = [tries EXCEPT ![c] = @ + 1]
    /\ IF outcome = "ok"
       THEN /\ wire' = FromHex(Cmd(op[c]))
            /\ pc' = [pc EXCEPT ![c] = "s_write2"]
            /\ UNCHANGED <<state, lockOwner, waiters, result, fault>>
       ELSE /\ SendFails(c, outcome)
            /\ NoWrite
    /\ UNCHANGED <<is_connected, subscribed, op>>

\* _send_command: write_gatt_char(CHARACTERISTIC_UUID, bytes.fromhex("F0")).
SendWrite2(c, outcome) ==
    /\ pc[c] = "s_write2"
    /\ IF outcome = "ok"
       THEN /\ wire' = FromHex(<<15, 0>>)
            /\ SendReturns(c)
            /\ UNCHANGED fault
       ELSE /\ SendFails(c, outcome)
            /\ NoWrite
    /\ UNCHANGED <<is_connected, subscribed, op, tries>>

\* The exception leaving update() with the lock still held.
UpdateFailsKeepsLock(c, f) ==
    /\ lockOwner' = lockOwner
    /\ fault' = [fault EXCEPT ![c] = f]
    /\ Finish(c, RemapError(f))

\* A transport call of update() raised f: the exception leaves update().
UpdateFails(c, f) ==
    /\ lockOwner' = 0
    /\ fault' = [fault EXCEPT ![c] = f]
    /\ Finish(c, RemapError(f))

\* update: start_notify(CHARACTERISTIC_UUID, handler).
StartNotify(c, outcome) ==
    /\ pc[c] = "u_start"
    /\ IF outcome = "ok"
       THEN /\ subscribed' = TRUE
            /\ pc' = [pc EXCEPT ![c] = "u_write1"]
            /\ UNCHANGED <<lockOwner, result, fault>>
       ELSE /\ UpdateFails(c, outcome)
            /\ UNCHANGED subscribed
    /\ UNCHANGED <<state, waiters, is_connected, op, tries>>
    /\ NoWrite

\* update: write_gatt_char(CHARACTERISTIC_UUID, bytes.fromhex("F0")).
UpdateWrite1(c, outcome) ==
    /\ pc[c] = "u_write1"
    /\ IF outcome = "ok"
       THEN /\ wire' = FromHex(<<15, 0>>)
            /\ pc' = [pc EXCEPT ![c] = "u_write2"]
            /\ UNCHANGED <<lockOwner, result, fault>>
       ELSE /\ UpdateFails(c, outcome)
            /\ NoWrite
    /\ UNCHANGED <<state, waiters, is_connected, subscribed, op,
                   tries>>

\* update: write_gatt_char(CHARACTERISTIC_UUID, bytes.fromhex("0F")).
UpdateWrite2(c, outcome) ==
    /\ pc[c] = "u_write2"
    /\ IF outcome = "ok"
       THEN /\ wire' = FromHex(<<0, 15>>)
            /\ pc' = [pc EXCEPT ![c] = "u_grace"]
            /\ UNCHANGED <<lockOwner, result, fault>>
       ELSE /\ UpdateFails(c, outcome)
            /\ NoWrite
    /\ UNCHANGED <<state, waiters, is_connected, subscribed, op,
                   tries>>

\* The grace period ending in a timeout because no notification came.
GraceTimesOut(c) ==
    /\ pc[c] = "u_grace"
    /\ ~(state.on # None /\ state.brightness # None)
    /\ UpdateFails(c, "Timeout")
    /\ UNCHANGED <<state, waiters, is_connected, subscribed, op, tries>>
    /\ NoWrite

\* update: asyncio.sleep(1) is over.
Grace(c) ==
    /\ pc[c] = "u_grace"
    /\ pc' = [pc EXCEPT ![c] = "u_stop"]
    /\ UNCHANGED <<state, lockOwner, waiters, is_connected, subscribed, op,
                   result, tries, fault>>
    /\ NoWrite

\* update: stop_notify(CHARACTERISTIC_UUID), then both blocks are left.
StopNotify(c, outcome) ==
    /\ pc[c] = "u_stop"
    /\ IF outcome = "ok"
       THEN /\ subscribed' = FALSE
            /\ lockOwner' = 0
            /\ Finish(c, "ok")
            /\ UNCHANGED fault
       ELSE /\ UpdateFails(c, outcome)
            /\ UNCHANGED subscribed
    /\ UNCHANGED <<state, waiters, is_connected, op, tries>>
    /\ NoWrite

\* The transport delivers a notification to _onoff_notification_handler.
Notification(data) ==
    /\ subscribed
    /\ state' = NotificationState(state, data)
    /\ UNCHANGED <<lockOwner, waiters, is_connected, subscribed, pc, op,
                   result, tries, fault>>
    /\ NoWrite

\* MagicStripDevice.address: the address of the owned device.
Address == "FF:FF:22:00:7B:BD"

\* The callback clearing the flag whatever the address of the handle.
OnDisconnectFlagAnyAddress(flag, a) == FALSE

\* _on_disconnect: the flag after the callback for a handle with address a.
OnDisconnectFlag(flag, a) == IF a = Address THEN FALSE ELSE flag

\* The transport calls _on_disconnect with a handle whose address is a.
OnDisconnect(a) ==
    /\ is_connected' = OnDisconnectFlag(is_connected, a)
    /\ UNCHANGED <<state, lockOwner, waiters, subscribed, pc, op, result,
                   tries, fault>>
    /\ NoWrite

\* The caller has its result and is free to call again.
Return(c) ==
    /\ pc[c] = "done"
    /\ pc' = [pc EXCEPT ![c] = "idle"]
    /\ op' = [op EXCEPT ![c] = NoOp]
    /\ result' = [result EXCEPT ![c] = "none"]
    /\ tries' = [tries EXCEPT ![c] = 0]
    /\ fault' = [fault EXCEPT ![c] = "none"]
    /\ UNCHANGED <<state, lockOwner, waiters, is_connected, subscribed>>
    /\ NoWrite

\* ---------------------------------------------------------------- inputs
\* The calls and frames the concurrent specification draws from.
Ops ==
    {OpColor(255, 0, 16), OpBrightness(128), OpSpeed(10),
     OpEffect(Some("Fade")), OpEffect(None), OpEffect(Some("Disco")),
     OpToggle, OpUpdate, OpDisconnect}

Frames == {<<15, 0, 128, 245, 1>>, <<240, 2, 1>>, <<1, 2, 3>>}

Addresses == {Address, "00:00:00:00:00:01"}

\* One step of caller c inside a call, the transport calls ending as io allows.
Step(c, io) ==
    \/ WakeLock(c)
    \/ ConnectOk(c)
    \/ \E f \in ConnectOutcomes : ConnectFails(c, f)
    \/ RetrySleep(c)
    \/ \E f \in io : SendWrite1(c, f)
    \/ \E f \in io : SendWrite2(c, f)
    \/ \E f \in io : StartNotify(c, f)
    \/ \E f \in io : UpdateWrite1(c, f)
    \/ \E f \in io : UpdateWrite2(c, f)
    \/ Grace(c)
    \/ \E f \in io : StopNotify(c, f)
    \/ Return(c)

\* Caller c starts operation o.
Call(c, o) ==
    \/ CallRejected(c, o)
    \/ CallNoEffect(c, o)
    \/ CallSend(c, o)
    \/ CallUpdate(c, o)
    \/ CallDisconnect(c, o)

\* Callers drawing their calls from ops, the transport its frames from frames
\* and the outcomes of its calls from io.
NextOf(ops, frames, io) ==
    \/ \E c \in Callers, o \in ops : Call(c, o)
    \/ \E c \in Callers : Step(c, io)
    \/ \E d \in frames : Notification(d)
    \/ \E a \in Addresses : OnDisconnect(a)

Next == NextOf(Ops, Frames, IoOutcomes)

Spec == Init /\ [][Next]_vars

\* ------------------------------------------- one caller, a range of inputs
\* Argument values around the limits of a byte.
ByteInputs == {-1, 0, 255, 256}
SpeedInputs == {-1, 0, 10, 255, 256}
ColorInputs ==
    {<<r, g, b>> : r \in {-1, 171, 256}, g \in {-1, 171, 256},
                   b \in {-1, 171, 256}}
    \cup {<<0, 0, 0>>, <<255, 255, 255>>, <<255, 0, 16>>, <<0, 171, 255>>}
EffectInputs == {None, Some("Fade"), Some("Strobe"), Some("Disco")}

SeqOps ==
    {OpColor(x[1], x[2], x[3]) : x \in ColorInputs}
    \cup {OpBrightness(b) : b \in ByteInputs}
    \cup {OpSpeed(s) : s \in SpeedInputs}
    \cup {OpEffect(e) : e \in EffectInputs}
    \cup {OpToggle, OpUpdate, OpDetection(-60), OpDisconnect}

\* Status frames, the acknowledgement, and byte sequences that are neither.
SeqFrames ==
    {<<15, 1, 255, 0, 0>>, <<15, 0, 128, 245, 1>>, <<15, 1, 0, 255, 2>>,
     <<240, 2, 1>>, <<1, 2, 3>>, <<15, 2, 10, 0, 0>>, <<15, 1, 255, 0>>,
     <<15, 1, 255, 0, 0, 0>>}

\* The single caller 1 drawing its calls from ops (the lock is never contended).
NextOne(ops, frames) ==
    \/ \E o \in ops : Call(1, o)
    \/ ConnectOk(1)
    \/ \E f \in ConnectOutcomes : ConnectFails(1, f)
    \/ RetrySleep(1)
    \/ \E f \in IoOutcomes : SendWrite1(1, f)
    \/ \E f \in IoOutcomes : SendWrite2(1, f)
    \/ \E f \in IoOutcomes : StartNotify(1, f)
    \/ \E f \in IoOutcomes : UpdateWrite1(1, f)
    \/ \E f \in IoOutcomes : UpdateWrite2(1, f)
    \/ Grace(1)
    \/ \E f \in IoOutcomes : StopNotify(1, f)
    \/ Return(1)
    \/ \E d \in frames : Notification(d)
    \/ \E a \in Addresses : OnDisconnect(a)

NextSeq == NextOne(SeqOps, SeqFrames)

SpecSeq == Init /\ [][NextSeq]_vars

\* ------------------------------------- concurrent callers, effect speeds
SpeedOps ==
    {OpSpeed(s) : s \in SpeedInputs}
    \cup {OpColor(255, 0, 16), OpEffect(None), OpUpdate, OpDisconnect}

\* Status frames whose speed byte is 255 - s for the speeds above.
SpeedFrames ==
    {<<15, 1, 255, 0, 0>>, <<15, 1, 255, 245, 0>>, <<15, 1, 255, 255, 0>>,
     <<240, 2, 1>>}

\* The transport calls of this specification raise no OSError.
NextSpeed == NextOf(SpeedOps, SpeedFrames, IoOutcomes \ {"OSError"})

SpecSpeed == Init /\ [][NextSpeed]_vars

\* ---------------------------------------- one caller, a range of rssi
\* The discovery events report every rssi from -RssiSpan up to 5.
RssiSpan == 100
RssiInputs == (0 - RssiSpan)..5

RssiOps ==
    {OpDetection(r) : r \in RssiInputs}
    \cup {OpEffect(Some("Fade")), OpEffect(None), OpBrightness(256), OpUpdate,
          OpDisconnect}

RssiFrames == {<<15, 1, 255, 0, 0>>}

NextRssi == NextOne(RssiOps, RssiFrames)

SpecRssi == Init /\ [][NextRssi]_vars

\* ------------------------------------------------- one caller, scheduled
\* The transport's connect call comes back, one way or the other.
ConnectAttempt(c) == ConnectOk(c) \/ \E f \in ConnectOutcomes : ConnectFails(c, f)

NextLive == NextOne(Ops, Frames)

\* The event loop resumes a task whose sleep is over and one whose connect
\* call has come back.
SpecLive ==
    /\ Init /\ [][NextLive]_vars
    /\ WF_vars(RetrySleep(1))
    /\ WF_vars(ConnectAttempt(1))

\* ------------------------------------------------------------------ claims
\* The suspension points inside "async with self.lock".
ExchangePcs ==
    {"s_connect", "s_sleep", "s_write1", "s_write2", "u_connect", "u_sleep",
     "u_start", "u_write1", "u_write2", "u_grace", "u_stop"}
WritePcs == {"s_write1", "s_write2", "u_write1", "u_write2"}
InExchange(c) == pc[c] \in ExchangePcs

\* C1: at most one caller is inside an exchange at any instant, it is the
\* holder of the lock, and every write that reaches the characteristic is
\* made by that caller while every other caller stands still outside.
C1_Serialized ==
    [][/\ Cardinality({c \in Callers : InExchange(c)}) <= 1
       /\ \A c \in Callers : InExchange(c) => lockOwner = c
       /\ wire' # <<>> =>
            \E c \in Callers :
              /\ pc[c] \in WritePcs /\ pc'[c] # pc[c]
              /\ \A d \in Callers \ {c} :
                   ~InExchange(d) /\ pc'[d] = pc[d]]_vars

\* One caller has written its payload while another waits for the lock.
C1_Witness ==
    \E c \in Callers, d \in Callers :
      /\ c # d
      /\ pc[c] = "s_write2" /\ op[c].name = "set_color"
      /\ wire = <<3, 255, 0, 16>>
      /\ pc[d] = "u_lock" /\ waiters = <<d>>

\* The suspension points of the __aenter__ loop, and the point reached when
\* __aenter__ has returned.
ConnectPcs == {"s_connect", "u_connect"}
SleepPcs == {"s_sleep", "u_sleep"}
EnteredPcs == {"s_write1", "u_start"}

\* C2: a connect attempt ends in a return of __aenter__ with the flag set,
\* in the retry sleep (after which the connect is attempted again), or in an
\* exception that is none of the recoverable kinds; and if the transport
\* lets an attempt succeed once attempts are made again and again, the
\* caller leaves the loop.
C2_RetryUntilConnected ==
    /\ [][\A c \in Callers :
            /\ (pc[c] \in ConnectPcs /\ pc'[c] # pc[c]) =>
                 \/ pc'[c] \in EnteredPcs /\ is_connected' /\ result'[c] = "none"
                 \/ pc'[c] \in SleepPcs /\ lockOwner' = c /\ result'[c] = "none"
                 \/ pc'[c] = "done" /\ result'[c] = "Unexpected"
            /\ (pc[c] \in SleepPcs /\ pc'[c] # pc[c]) =>
                 \/ pc'[c] \in ConnectPcs /\ ~is_connected
                 \/ pc'[c] \in EnteredPcs /\ is_connected]_vars
    /\ SF_vars(ConnectOk(1)) =>
         ((pc[1] \in ConnectPcs \cup SleepPcs)
            ~> (pc[1] \in EnteredPcs \/ result[1] = "Unexpected"))

\* A recoverable failure has happened: the caller sleeps, still holding the
\* lock, and nothing has been raised.
C2_Witness ==
    /\ pc[1] = "s_sleep" /\ op[1].name = "set_color"
    /\ lockOwner = 1 /\ ~is_connected /\ result[1] = "none"

\* C3 (as claimed): a send whose first write fails with OSError makes a
\* second exchange, and when that one fails the same way the send has made
\* exactly 2 exchanges and raises OSError.
C3_RetriedThenRaised ==
    [][\A c \in Callers :
         (pc[c] = "s_write1" /\ fault'[c] = "OSError") =>
            \/ tries'[c] < 2 /\ pc'[c] \in {"s_write1", "s_connect"}
            \/ tries'[c] = 2 /\ pc'[c] = "done" /\ result'[c] = "OSError"]_vars

\* C4: a write of a send that times out ends the send with BleTimeoutError,
\* one that fails with a transport error ends it with BleConnectionError;
\* either way after one exchange, with the lock released and the state as it
\* was.
C4_WriteErrorsRemapped ==
    [][\A c \in Callers :
         (pc[c] \in {"s_write1", "s_write2"}
            /\ fault'[c] \in {"Timeout", "BleakError"}) =>
            /\ pc'[c] = "done"
            /\ result'[c] = (IF fault'[c] = "Timeout" THEN "BleTimeoutError"
                             ELSE "BleConnectionError")
            /\ tries'[c] = 1
            /\ lockOwner' = 0
            /\ state' = state /\ wire' = <<>>]_vars

\* One send has ended in BleTimeoutError and another in BleConnectionError.
C4_Witness ==
    \E c \in Callers, d \in Callers :
      /\ pc[c] = "done" /\ op[c].name = "set_color"
      /\ fault[c] = "Timeout" /\ result[c] = "BleTimeoutError" /\ tries[c] = 1
      /\ pc[d] = "done" /\ op[d].name = "set_effect_name"
      /\ fault[d] = "BleakError" /\ result[d] = "BleConnectionError"
      /\ tries[d] = 1

\* The calls the mutators are to reject: a colour component, a brightness or
\* a speed outside 0..255, an effect name that is not in the table.
OutOfRangeCall(o) ==
    \/ o.name = "set_color" /\ \E i \in 1..3 : o.a[i] < 0 \/ o.a[i] > 255
    \/ o.name \in {"set_brightness", "set_effect_speed"}
         /\ (o.a[1] < 0 \/ o.a[1] > 255)
    \/ o.name = "set_effect_name" /\ o.e # None /\ o.e[1] \notin DOMAIN EFFECTS

\* C5: a mutator called with an out-of-range argument raises OutOfRange at
\* once: nothing is written, the lock and the session flag are left alone
\* and the device state is unchanged.
C5_RejectedBeforeTransport ==
    [][\A c \in Callers :
         (pc[c] = "idle" /\ pc'[c] # "idle" /\ OutOfRangeCall(op'[c])) =>
            /\ pc'[c] = "done" /\ result'[c] = "OutOfRange"
            /\ state' = state /\ wire' = <<>>
            /\ lockOwner' = lockOwner /\ waiters' = waiters
            /\ is_connected' = is_connected /\ subscribed' = subscribed]_vars

\* set_color with blue = 256 was rejected; the colour set before is kept.
C5_Witness ==
    /\ pc[1] = "done" /\ op[1] = OpColor(171, 171, 256)
    /\ result[1] = "OutOfRange"
    /\ state.color = Some(<<255, 0, 16>>) /\ lockOwner = 0

\* C6: the first write of set_color(r, g, b) puts the bytes 03 r g b on the
\* characteristic, the second F0, and whenever set_color returns the state
\* has color = (r, g, b) and no effect.
C6_SetColor ==
    [][\A c \in Callers :
         op[c].name = "set_color" =>
            /\ (pc[c] = "s_write1" /\ pc'[c] = "s_write2") =>
                 wire' = <<3, op[c].a[1], op[c].a[2], op[c].a[3]>>
            /\ (pc[c] = "s_write2" /\ fault'[c] = "none" /\ pc'[c] # pc[c]) =>
                 wire' = <<240>> /\ pc'[c] = "done" /\ result'[c] = "ok"
            /\ (pc[c] \in ExchangePcs /\ pc'[c] = "done" /\ result'[c] = "ok") =>
                 /\ state'.color = Some(<<op[c].a[1], op[c].a[2], op[c].a[3]>>)
                 /\ state'.effect = None]_vars

\* set_color(0, 171, 255) has returned after both of its writes.
C6_Witness ==
    /\ pc[1] = "done" /\ op[1] = OpColor(0, 171, 255)
    /\ result[1] = "ok" /\ fault[1] = "none" /\ tries[1] = 1
    /\ wire = <<240>>
    /\ state.color = Some(<<0, 171, 255>>) /\ state.effect = None

\* C7: in every reachable state color and effect are not both set.
C7_ColorOrEffect == state.color = None \/ state.effect = None

\* set_effect_name("Fade") has returned, then set_color: the colour is set
\* and the effect is gone.
C7_Witness ==
    \E c \in Callers, d \in Callers :
      /\ pc[c] = "done" /\ op[c] = OpEffect(Some("Fade")) /\ result[c] = "ok"
      /\ pc[d] = "done" /\ op[d].name = "set_color" /\ result[d] = "ok"
      /\ state.color = Some(<<255, 0, 16>>) /\ state.effect = None

\* C8 (as claimed): brightness never changes without on being given a value
\* by the same replacement, nor on without brightness.
C8_OnlyTogether ==
    [][/\ state'.brightness # state.brightness => state'.on # None
       /\ state'.on # state.on => state'.brightness # None]_vars

\* C8 (amended): on and brightness change in three ways only: a status
\* notification replaces both; the return of set_brightness's send replaces
\* brightness and leaves on as it was; the return of toggle_power's send
\* replaces on and leaves brightness as it was.
C8_JointOnlyByNotification ==
    [][(state'.on # state.on \/ state'.brightness # state.brightness) =>
         \/ /\ pc' = pc /\ subscribed
            /\ state'.on # None /\ state'.brightness # None
            /\ \E on \in BOOLEAN, b \in 0..255 :
                 state' = [state EXCEPT !.on = Some(on), !.brightness = Some(b)]
         \/ \E c \in Callers :
              /\ pc[c] \in {"s_write1", "s_write2"} /\ pc'[c] # pc[c]
              /\ op[c].name = "set_brightness"
              /\ state' = [state EXCEPT !.brightness = Some(op[c].a[1])]
         \/ \E c \in Callers :
              /\ pc[c] \in {"s_write1", "s_write2"} /\ pc'[c] # pc[c]
              /\ op[c].name = "toggle_power"
              /\ state'.on # None
              /\ state' = [state EXCEPT !.on = state'.on]]_vars

\* set_brightness has set brightness while on is still unknown.
C8_Witness ==
    /\ state.brightness = Some(128) /\ state.on = None
    /\ \E c \in Callers : op[c].name = "set_brightness" /\ tries[c] = 1

IsStatusFrame(d) == Len(d) = 5 /\ d[1] = 15 /\ d[2] \in {0, 1}

\* C10: whenever a notification can be delivered (the handler is subscribed),
\* the handler run on a status frame 0F WW XX YY ZZ makes on = (WW = 01) and
\* brightness = XX and leaves color, effect and rssi as they were, and run on
\* the acknowledgement or on any other byte sequence it leaves the state
\* unchanged; it has a result for every frame.
C10_NotificationEffect ==
    subscribed =>
      \A d \in SeqFrames :
        LET n == NotificationState(state, d) IN
        IF IsStatusFrame(d)
        THEN /\ n.on = Some(d[2] = 1)
             /\ n.brightness = Some(d[3])
             /\ n.color = state.color
             /\ n.effect = state.effect
             /\ n.rssi = state.rssi
        ELSE n = state

\* The frame 0f 00 80 f5 01 was decoded after set_color(255, 0, 16) and a
\* detection with rssi -60: off, brightness 128, color and rssi kept.
C10_Witness ==
    /\ state.on = Some(FALSE) /\ state.brightness = Some(128)
    /\ state.color = Some(<<255, 0, 16>>) /\ state.rssi = Some(-60)
    /\ state.effect = None

\* Everything but the session flag and the bytes of the latest write.
Others == <<state, lockOwner, waiters, subscribed, pc, op, result, tries, fault>>

\* C11: a disconnect callback for a handle with the owned device's address
\* leaves the session flag cleared, one for any other address leaves it as it
\* was, and neither changes anything else; the flag is never cleared in any
\* other way.
C11_DisconnectOnlyOwnAddress ==
    [][/\ \A a \in Addresses :
            OnDisconnect(a) =>
              /\ is_connected' = (IF a = Address THEN FALSE ELSE is_connected)
              /\ Others' = Others
       /\ (is_connected /\ ~is_connected') =>
            OnDisconnect(Address) /\ Others' = Others]_vars

\* A caller connected and reached its first write, then the callback for
\* the owned address cleared the flag.
C11_Witness ==
    \E c \in Callers :
      /\ pc[c] = "s_write1" /\ lockOwner = c /\ tries[c] = 0
      /\ ~is_connected

\* C12 (as claimed): when a disconnect() call completes, the session flag is
\* disconnected, whether or not the disconnect callback has been delivered.
C12_DisconnectClearsFlag ==
    [][\A c \in Callers :
         (pc[c] = "idle" /\ op'[c].name = "disconnect" /\ pc'[c] = "done") =>
            ~is_connected']_vars

\* C13: a connect that fails with an exception outside the recoverable
\* kinds ends the operation at once with that exception: no sleep and no
\* further attempt, the session flag disconnected before and after, no write
\* begun by the exchange, the state untouched and the lock released.
C13_UnexpectedConnectFailure ==
    [][\A c \in Callers :
         ConnectFails(c, "Unexpected") =>
            /\ pc'[c] = "done" /\ result'[c] = "Unexpected"
            /\ ~is_connected /\ ~is_connected'
            /\ tries'[c] = tries[c] /\ wire' = <<>>
            /\ state' = state
            /\ lockOwner = c /\ lockOwner' = 0]_vars

\* An update failed in its connect with an unexpected exception while a
\* second caller was queued on the lock, which is free again.
C13_Witness ==
    \E c \in Callers, d \in Callers :
      /\ pc[c] = "done" /\ op[c].name = "update"
      /\ result[c] = "Unexpected" /\ fault[c] = "Unexpected"
      /\ lockOwner = 0 /\ waiters = <<d>> /\ ~is_connected

\* The bands of the reference mapping as intervals of rssi.
Bands == {"Unknown", "Excellent", "Good", "Bad", "Terrible"}
InBand(b, r) ==
    CASE b = "Unknown" -> r >= 0
      [] b = "Excellent" -> -55 <= r /\ r < 0
      [] b = "Good" -> -75 <= r /\ r < -55
      [] b = "Bad" -> -85 <= r /\ r < -75
      [] b = "Terrible" -> r < -85

\* C14: connection_quality is None while rssi is absent; otherwise it is
\* the one band of the reference mapping that contains rssi, and exactly one
\* band contains it.
C14_ConnectionQuality ==
    IF state.rssi = None
    THEN ConnectionQuality(state) = None
    ELSE LET r == state.rssi[1] IN
         /\ Cardinality({b \in Bands : InBand(b, r)}) = 1
         /\ \E b \in Bands : InBand(b, r) /\ ConnectionQuality(state) = Some(b)

\* A discovery event has reported rssi -55, the upper limit of "Excellent"
\* below zero, and update() has run to its end.
C14_Witness ==
    /\ state.rssi = Some(-55) /\ ConnectionQuality(state) = Some("Excellent")
    /\ pc[1] = "done" /\ op[1] = OpDetection(-55) /\ result[1] = "ok"

\* C15 (as claimed): a mutator does not touch the state before its dispatch
\* has completed: the step that starts the dispatch leaves the state as it
\* is, and so does the step in which the mutator raises.
C15_StateOnlyAfterDispatch ==
    [][\A c \in Callers :
         op'[c].name \in SendOps =>
            /\ (pc[c] = "idle" /\ pc'[c] \notin {"idle", "done"}) =>
                 state' = state
            /\ (pc[c] # "done" /\ pc'[c] = "done" /\ result'[c] # "ok") =>
                 state' = state]_vars

\* The suspension points of one exchange of a send.
SendPcs == {"s_connect", "s_sleep", "s_write1", "s_write2"}

UpdatePcs == {"u_lock", "u_connect", "u_sleep", "u_start", "u_write1",
              "u_write2", "u_grace", "u_stop"}

\* C17: when the F0 write of set_brightness or toggle_power has succeeded,
\* the same step replaces the state (brightness, or on negated) and enters
\* update(), which takes the lock anew (queueing behind any caller already
\* waiting) and then writes F0 and 0F; set_color, set_effect_name and
\* set_effect_speed never enter update().
C17_CommandThenUpdate ==
    [][\A c \in Callers :
         /\ (/\ op[c].name \in {"set_brightness", "toggle_power"}
             /\ pc[c] = "s_write2" /\ pc'[c] # pc[c] /\ fault'[c] = "none") =>
              /\ wire' = <<240>>
              /\ state' = (IF op[c].name = "set_brightness"
                           THEN [state EXCEPT !.brightness = Some(op[c].a[1])]
                           ELSE [state EXCEPT !.on = Some(state.on # Some(TRUE))])
              /\ pc'[c] \in {"u_lock", "u_connect", "u_start"}
              /\ waiters # <<>> =>
                   /\ pc'[c] = "u_lock" /\ lockOwner' = 0
                   /\ waiters' = Append(waiters, c)
         /\ (pc[c] = "u_write1" /\ pc'[c] = "u_write2") => wire' = <<240>>
         /\ (pc[c] = "u_write2" /\ pc'[c] = "u_grace") => wire' = <<15>>
         /\ op'[c].name \in {"set_color", "set_effect_name", "set_effect_speed"}
              => pc'[c] \notin UpdatePcs]_vars

\* toggle_power has written its command and F0, set on, and its update()
\* has written F0 and 0F.
C17_Witness ==
    \E c \in Callers :
      /\ op[c].name = "toggle_power" /\ pc[c] = "u_grace"
      /\ tries[c] = 1 /\ fault[c] = "none"
      /\ wire = <<15>> /\ state.on = Some(TRUE) /\ subscribed

\* C18: update() itself never changes the state (only a delivered
\* notification does), the grace period always ends in the unsubscribe step
\* whether or not a notification came, and an unsubscribe that succeeds ends
\* update() with a normal return.
C18_UpdateBestEffort ==
    [][\A c \in Callers :
         /\ (pc[c] \in UpdatePcs /\ pc'[c] # pc[c]) => state' = state
         /\ (pc[c] = "u_grace" /\ pc'[c] # pc[c]) =>
              pc'[c] = "u_stop" /\ result'[c] = "none" /\ fault'[c] = fault[c]
         /\ (pc[c] = "u_stop" /\ pc'[c] # pc[c] /\ ~subscribed') =>
              pc'[c] = "done" /\ result'[c] = "ok"]_vars

\* update() has returned after set_color although no status frame was ever
\* decoded: on and brightness are still unknown and the colour is kept.
C18_Witness ==
    /\ pc[1] = "done" /\ op[1] = OpUpdate
    /\ result[1] = "ok" /\ fault[1] = "none" /\ ~subscribed
    /\ state = [InitialState EXCEPT !.color = Some(<<255, 0, 16>>)]

\* C19 (as claimed): whenever update() finishes, by returning or by raising,
\* the notification subscription is no longer active.
C19_UnsubscribedAtExit ==
    [][\A c \in Callers :
         (pc[c] \in UpdatePcs /\ pc'[c] = "done") => ~subscribed']_vars

\* How far into its exchange a lock holder is.
Rank(p) ==
    CASE p \in {"s_connect", "s_sleep", "u_connect", "u_sleep"} -> 1
      [] p = "u_start" -> 2
      [] p \in {"s_write1", "u_write1"} -> 3
      [] p \in {"s_write2", "u_write2"} -> 4
      [] p = "u_grace" -> 5
      [] p = "u_stop" -> 6
      [] OTHER -> 0

\* C20: the lock is held only by a caller inside an exchange, never by one
\* that is idle, has finished (however its call ended) or waits for the
\* lock; the callers queued on it are waiting and are not the holder; and a
\* holder that keeps the lock over a step of its own moves forward in its
\* exchange, except around the connect retry loop (and except when a send
\* has ended and the update that follows has taken the lock anew).
C20_LockReleased ==
    [][/\ \A c \in Callers :
            /\ lockOwner = c => pc[c] \in ExchangePcs
            /\ (pc[c] # "done" /\ pc'[c] = "done") => lockOwner' # c
            /\ (lockOwner = c /\ lockOwner' = c /\ pc'[c] # pc[c]) =>
                 \/ Rank(pc'[c]) > Rank(pc[c])
                 \/ pc[c] \in ConnectPcs \cup SleepPcs
                      /\ pc'[c] \in ConnectPcs \cup SleepPcs
                 \/ pc[c] \in SendPcs /\ pc'[c] \in UpdatePcs
       /\ \A i \in 1..Len(waiters) :
            /\ pc[waiters[i]] \in {"s_lock", "u_lock"}
            /\ waiters[i] # lockOwner
       /\ (lockOwner = 0 /\ waiters # <<>>) => ENABLED WakeLock(Head(waiters))]_vars

\* An update() has ended in an uncaught OSError, and the other caller holds
\* the lock and is at its first write.
C20_Witness ==
    \E c \in Callers, d \in Callers :
      /\ pc[c] = "done" /\ op[c].name = "update" /\ result[c] = "OSError"
      /\ lockOwner = d /\ pc[d] = "s_write1" /\ tries[d] = 0

====
